---- MODULE Spec2Model ----
(***************************************************************************)
(* A model of the categorical encoders of category_encoding.py             *)
(* (labelencoder, onehotencoder, countencoder, targetencoder and the       *)
(* CategoryEncoder factory) and of xgb_model_evaluation of                 *)
(* model_evaluation.py.                                                    *)
(*                                                                         *)
(* Values.  A Python value of a column is a tagged sequence of integers:   *)
(* the string s is <<1>> \o (its code points), the number n is <<0, n>>.   *)
(* Two values are equal exactly when Python's == says so (a string never   *)
(* equals a number), and < is defined between values of one type only, as  *)
(* in Python 3.                                                            *)
(*                                                                         *)
(* Rationals.  The targets and the smoothed means are exact rationals      *)
(* <<numerator, denominator>> in lowest terms with a positive denominator. *)
(***************************************************************************)
EXTENDS Integers, Sequences, FiniteSets, TLC

VARIABLES
    kind,             \* class of the live object ("none" before construction)
    fitted,           \* the live object has completed a fit
    pc,               \* position inside labelencoder.fit: "idle" or "probe"
    fitX,             \* argument X of the running labelencoder/onehotencoder fit,
                      \* and of the most recent targetencoder fit
    fitY,             \* argument y of the most recent targetencoder fit
    l, t1, t2,        \* locals of labelencoder.fit
    classes_,         \* labelencoder: encoder.classes_; targetencoder: classes_
    unknown,          \* labelencoder: self.unknown
    n_values_,        \* onehotencoder: encoder.n_values_
    active_features_, \* onehotencoder: encoder.active_features_
    unseen_values,    \* countencoder
    log_transform,    \* countencoder
    smoothing,        \* countencoder / targetencoder: self.smoothing
    smoothing_arg,    \* the smoothing argument the constructor was called with
    dmap,             \* countencoder / targetencoder: self.dmap
    random_noise,     \* targetencoder
    random_seed,      \* targetencoder
    bias,             \* targetencoder
    base_p,           \* targetencoder
    method,           \* argument of the most recent CategoryEncoder call
    op,               \* the most recent call
    lastX,            \* argument of the most recent transform call
    ret,              \* value returned by the most recent call (<<>> for None)
    err,              \* exception raised by the most recent call ("none")
    evalCall,         \* arguments of the most recent xgb_model_evaluation call
    evalRet           \* its outcome

vars == <<kind, fitted, pc, fitX, fitY, l, t1, t2, classes_, unknown, n_values_,
          active_features_, unseen_values, log_transform, smoothing,
          smoothing_arg, dmap, random_noise, random_seed, bias, base_p, method,
          op, lastX, ret, err, evalCall, evalRet>>

leLocals == <<pc, fitX, l, t1, t2>>
leState == <<classes_, unknown>>
ohState == <<n_values_, active_features_>>
ceParams == <<unseen_values, log_transform, smoothing_arg>>
teParams == <<random_noise, random_seed>>
teState == <<bias, base_p, fitY>>
evalVars == <<evalCall, evalRet>>

----------------------------------------------------------------------------
(* Bounds of the model.                                                    *)

\* longest column handed to fit
MaxLen == 3
\* longest column handed to transform
MaxTLen == 2
\* most rows of a training set handed to targetencoder.fit
MaxTrain == 2

----------------------------------------------------------------------------
(* Python values.                                                          *)

Str(s) == <<1>> \o s
Num(n) == <<0, n>>
IsStr(v) == v[1] = 1
SameType(a, b) == a[1] = b[1]

RECURSIVE SeqLt(_, _)
\* Python's < on two values of one type: code-point order on strings,
\* numeric order on numbers.
SeqLt(s, t) ==
    IF s = <<>> THEN t # <<>>
    ELSE IF t = <<>> THEN FALSE
    ELSE IF s[1] # t[1] THEN s[1] < t[1]
    ELSE SeqLt(Tail(s), Tail(t))

Elems(s) == {s[i] : i \in DOMAIN s}

\* x in list
In(x, s) == x \in Elems(s)

RECURSIVE SortSet(_)
SortSet(S) ==
    IF S = {} THEN <<>>
    ELSE LET m == CHOOSE x \in S : \A z \in S \ {x} : SeqLt(x, z)
         IN <<m>> \o SortSet(S \ {m})

\* np.unique(X): the sorted distinct values of X
Unique(X) == SortSet(Elems(X))

RECURSIVE BisectLeft(_, _, _, _)
\* bisect.bisect_left(a, x, lo, hi), indices 0-based as in Python
BisectLeft(a, x, lo, hi) ==
    IF lo < hi
    THEN LET mid == (lo + hi) \div 2
         IN IF SeqLt(a[mid + 1], x)
            THEN BisectLeft(a, x, mid + 1, hi)
            ELSE BisectLeft(a, x, lo, mid)
    ELSE lo

\* bisect.insort_left(a, x) raises TypeError when it compares a string with
\* a number, which it does as soon as the list is not empty
InsortRaises(a, x) == a # <<>> /\ ~SameType(a[1], x)

InsortLeft(a, x) ==
    LET k == BisectLeft(a, x, 0, Len(a))
    IN SubSeq(a, 1, k) \o <<x>> \o SubSeq(a, k + 1, Len(a))

\* np.searchsorted(classes, v): the 0-based leftmost insertion index
SearchSorted(classes, v) == BisectLeft(classes, v, 0, Len(classes))

RECURSIVE SeqSum(_)
SeqSum(s) == IF s = <<>> THEN 0 ELSE s[1] + SeqSum(Tail(s))

RECURSIVE SeqsUpTo(_, _)
\* the sequences over S of length at most n
SeqsUpTo(S, n) ==
    IF n = 0 THEN {<<>>}
    ELSE LET shorter == SeqsUpTo(S, n - 1)
         IN shorter \cup {Append(s, x) : s \in {q \in shorter : Len(q) = n - 1}, x \in S}

----------------------------------------------------------------------------
(* The strings and numbers the columns are drawn from.                     *)

\* '<unknown>', the first sentinel candidate of labelencoder.fit
UnknownStr == Str(<<60, 117, 110, 107, 110, 111, 119, 110, 62>>)
\* the character '*' appended to a colliding string candidate
Star == 42
\* the first numeric sentinel candidate of labelencoder.fit
T2Init == -999

StrOne == Str(<<49>>)
StrA == Str(<<97>>)
StrB == Str(<<98>>)
StrC == Str(<<99>>)
StrD == Str(<<100>>)
StrV == Str(<<118>>)

StrVals == {StrOne, StrA, UnknownStr, Append(UnknownStr, Star)}
NumVals == {Num(-1000), Num(T2Init), Num(0)}

\* columns of strings and columns of numbers
LabelFitCols == SeqsUpTo(StrVals, MaxLen) \cup SeqsUpTo(NumVals, MaxLen)
LabelTransformCols ==
    SeqsUpTo({StrOne, UnknownStr, StrV}, MaxTLen)
        \cup SeqsUpTo({Num(-1000), Num(0), Num(5)}, MaxTLen)

----------------------------------------------------------------------------
Init ==
    /\ kind = "none"
    /\ fitted = FALSE
    /\ pc = "idle"
    /\ fitX = <<>>
    /\ fitY = <<>>
    /\ l = <<>>
    /\ t1 = <<>>
    /\ t2 = 0
    /\ classes_ = <<>>
    /\ unknown = <<>>
    /\ n_values_ = 0
    /\ active_features_ = <<>>
    /\ unseen_values = 0
    /\ log_transform = FALSE
    /\ smoothing = 0
    /\ smoothing_arg = 0
    /\ dmap = <<>>
    /\ random_noise = <<0, 1>>
    /\ random_seed = 0
    /\ bias = <<>>
    /\ base_p = <<0, 1>>
    /\ method = ""
    /\ op = "none"
    /\ lastX = <<>>
    /\ ret = <<>>
    /\ err = "none"
    /\ evalCall = <<>>
    /\ evalRet = <<>>

\* a freshly constructed object of class k: no fitted attribute exists yet
Fresh(k) ==
    /\ kind' = k
    /\ fitted' = FALSE
    /\ pc' = "idle"
    /\ fitX' = <<>>
    /\ fitY' = <<>>
    /\ l' = <<>>
    /\ t1' = <<>>
    /\ t2' = 0
    /\ classes_' = <<>>
    /\ unknown' = <<>>
    /\ n_values_' = 0
    /\ active_features_' = <<>>
    /\ dmap' = <<>>
    /\ bias' = <<>>
    /\ base_p' = <<0, 1>>
    /\ lastX' = <<>>
    /\ ret' = <<>>
    /\ err' = "none"

\* the object has none of the countencoder / targetencoder parameters
NoParams ==
    /\ unseen_values' = 0
    /\ log_transform' = FALSE
    /\ smoothing' = 0
    /\ smoothing_arg' = 0
    /\ random_noise' = <<0, 1>>
    /\ random_seed' = 0

----------------------------------------------------------------------------
(* labelencoder                                                            *)

\* labelencoder(): the constructor is sklearn's, with its default arguments
LabelInit ==
    /\ pc = "idle"
    /\ Fresh("labelencoder")
    /\ NoParams
    /\ method' = ""
    /\ op' = "init"
    /\ UNCHANGED evalVars

\* `t1 in l` and `t2 in l` (lines 44, 46)
T1InL == In(t1, l)
T2InL == In(Num(t2), l)

\* one iteration of `while (t2 in l)`: t2 -= t2 (line 47)
MutateT2(t) == t - t

\* the classes and the sentinel that lines 49-59 store
LabelClasses(X, c1, c2) ==
    LET le_classes == Unique(X)
    IN IF ~InsortRaises(le_classes, c1)
       THEN InsortLeft(le_classes, c1)
       ELSE InsortLeft(le_classes, Num(c2))

LabelUnknown(X, c1, c2) ==
    IF ~InsortRaises(Unique(X), c1) THEN c1 ELSE Num(c2)

\* labelencoder.fit, lines 41-43: the call starts
LabelFitBegin(X) ==
    /\ kind = "labelencoder"
    /\ pc = "idle"
    /\ pc' = "probe"
    /\ fitX' = X
    /\ l' = Unique(X)
    /\ t1' = UnknownStr
    /\ t2' = T2Init
    /\ op' = "fit"
    /\ ret' = <<>>
    /\ err' = "none"
    /\ lastX' = <<>>
    /\ UNCHANGED <<kind, fitted, fitY, leState, ohState, ceParams, smoothing, dmap,
                   teParams, bias, base_p, method, evalVars>>

\* one iteration of `while (t1 in l): t1 = t1 + '*'` (lines 44-45)
ProbeT1 ==
    /\ pc = "probe"
    /\ T1InL
    /\ t1' = Append(t1, Star)
    /\ UNCHANGED <<kind, fitted, pc, fitX, fitY, l, t2, leState, ohState, ceParams,
                   smoothing, dmap, teParams, bias, base_p, method, op, lastX, ret,
                   err, evalVars>>

\* one iteration of `while (t2 in l): t2 -= t2` (lines 46-47).  Once t2 is 0
\* an iteration leaves every variable as it was: with 0 in l the loop spins
\* in this one state and fit never reaches line 49.
ProbeT2 ==
    /\ pc = "probe"
    /\ ~T1InL
    /\ T2InL
    /\ t2' = MutateT2(t2)
    /\ UNCHANGED <<kind, fitted, pc, fitX, fitY, l, t1, leState, ohState, ceParams,
                   smoothing, dmap, teParams, bias, base_p, method, op, lastX, ret,
                   err, evalVars>>

\* labelencoder.fit, lines 49-60: both loops have stopped
LabelFitEnd ==
    /\ kind = "labelencoder"
    /\ pc = "probe"
    /\ ~T1InL
    /\ ~T2InL
    /\ classes_' = LabelClasses(fitX, t1, t2)
    /\ unknown' = LabelUnknown(fitX, t1, t2)
    /\ fitted' = TRUE
    /\ pc' = "idle"
    /\ fitX' = <<>>
    /\ l' = <<>>
    /\ t1' = <<>>
    /\ t2' = 0
    /\ UNCHANGED <<kind, fitY, ohState, ceParams, smoothing, dmap, teParams, bias,
                   base_p, method, op, lastX, ret, err, evalVars>>

\* line 67: every value that is not a class is replaced by the sentinel
Known(X, classes, unk) ==
    [i \in DOMAIN X |-> IF In(X[i], classes) THEN X[i] ELSE unk]

\* labelencoder.transform on a fitted encoder (lines 67-68);
\* LabelEncoder.transform is np.searchsorted on classes_
LabelCodes(X, classes, unk) ==
    [i \in DOMAIN X |-> SearchSorted(classes, Known(X, classes, unk)[i])]

LabelTransform(X) ==
    /\ kind = "labelencoder"
    /\ pc = "idle"
    /\ op' = "transform"
    /\ lastX' = X
    /\ IF fitted
       THEN ret' = LabelCodes(X, classes_, unknown) /\ err' = "none"
       ELSE ret' = <<>> /\ err' = "AttributeError"
    /\ UNCHANGED <<kind, fitted, leLocals, fitY, leState, ohState, ceParams,
                   smoothing, dmap, teParams, bias, base_p, method, evalVars>>

LabelNext ==
    \/ LabelInit
    \/ \E X \in LabelFitCols : LabelFitBegin(X)
    \/ ProbeT1
    \/ ProbeT2
    \/ LabelFitEnd
    \/ \E X \in LabelTransformCols : LabelTransform(X)

\* the interpreter runs a started fit to its next step: each loop iteration
\* and the rest of the body are taken whenever they are enabled
LabelFairness ==
    /\ WF_vars(ProbeT1)
    /\ WF_vars(ProbeT2)
    /\ WF_vars(LabelFitEnd)

SpecLabel == Init /\ [][LabelNext]_vars /\ LabelFairness

----------------------------------------------------------------------------
(* onehotencoder.  sklearn's OneHotEncoder is the one the class docstring  *)
(* documents (lines 82-88): with n_values='auto' it keeps n_values_ =      *)
(* max code + 1 and active_features_ = the codes seen by fit, and with     *)
(* handle_unknown='error' its transform refuses a code >= n_values_.       *)

OneHotFitCols == LabelFitCols \ {<<>>}

\* onehotencoder(): the constructor is sklearn's, with its default arguments
OneHotInit ==
    /\ pc = "idle"
    /\ Fresh("onehotencoder")
    /\ NoParams
    /\ method' = ""
    /\ op' = "init"
    /\ UNCHANGED evalVars

\* onehotencoder.fit, lines 102-103: le.fit(X) starts (lines 41-43)
OneHotFitBegin(X) ==
    /\ kind = "onehotencoder"
    /\ pc = "idle"
    /\ pc' = "probe"
    /\ fitX' = X
    /\ l' = Unique(X)
    /\ t1' = UnknownStr
    /\ t2' = T2Init
    /\ op' = "fit"
    /\ ret' = <<>>
    /\ err' = "none"
    /\ lastX' = <<>>
    /\ UNCHANGED <<kind, fitted, fitY, leState, ohState, ceParams, smoothing, dmap,
                   teParams, bias, base_p, method, evalVars>>

SeqMax(s) == CHOOSE m \in Elems(s) : \A z \in Elems(s) : z <= m

\* OneHotEncoder.fit with n_values='auto': n_values_ = np.max(X) + 1
NValues(codes) == SeqMax(codes) + 1

RECURSIVE SortInts(_)
SortInts(S) ==
    IF S = {} THEN <<>>
    ELSE LET m == CHOOSE x \in S : \A z \in S : x <= z
         IN <<m>> \o SortInts(S \ {m})

\* a variant that keeps every column below n_values_, the sentinel's included
AllFeatures(codes) == [j \in 1..(SeqMax(codes) + 1) |-> j - 1]

\* OneHotEncoder.fit with n_values='auto': active_features_ are the columns
\* of the codes fit has seen
ActiveFeatures(codes) == SortInts(Elems(codes))

\* onehotencoder.fit, lines 49-60 of le.fit and then lines 104-116
OneHotFitEnd ==
    /\ kind = "onehotencoder"
    /\ pc = "probe"
    /\ ~T1InL
    /\ ~T2InL
    /\ LET classes == LabelClasses(fitX, t1, t2)
           unk == LabelUnknown(fitX, t1, t2)
           codes == LabelCodes(fitX, classes, unk)
       IN /\ classes_' = classes
          /\ unknown' = unk
          /\ n_values_' = NValues(codes)
          /\ active_features_' = ActiveFeatures(codes)
    /\ fitted' = TRUE
    /\ pc' = "idle"
    /\ fitX' = <<>>
    /\ l' = <<>>
    /\ t1' = <<>>
    /\ t2' = 0
    /\ UNCHANGED <<kind, fitY, ceParams, smoothing, dmap, teParams, bias, base_p,
                   method, op, lastX, ret, err, evalVars>>

\* OneHotEncoder.transform with handle_unknown='error' raises ValueError on
\* an empty array and on a code that is not below n_values_
OneHotRaises(codes, nv) ==
    codes = <<>> \/ \E i \in DOMAIN codes : codes[i] >= nv

\* OneHotEncoder.transform: one indicator row per code, restricted to the
\* active columns
OneHotRows(codes, active) ==
    [i \in DOMAIN codes |->
        [j \in DOMAIN active |-> IF active[j] = codes[i] THEN 1 ELSE 0]]

\* onehotencoder.transform, lines 123-124
OneHotTransform(X) ==
    /\ kind = "onehotencoder"
    /\ pc = "idle"
    /\ op' = "transform"
    /\ lastX' = X
    /\ IF ~fitted
       THEN ret' = <<>> /\ err' = "AttributeError"
       ELSE LET codes == LabelCodes(X, classes_, unknown)
            IN IF OneHotRaises(codes, n_values_)
               THEN ret' = <<>> /\ err' = "ValueError"
               ELSE ret' = OneHotRows(codes, active_features_) /\ err' = "none"
    /\ UNCHANGED <<kind, fitted, leLocals, fitY, leState, ohState, ceParams,
                   smoothing, dmap, teParams, bias, base_p, method, evalVars>>

OneHotNext ==
    \/ OneHotInit
    \/ \E X \in OneHotFitCols : OneHotFitBegin(X)
    \/ ProbeT1
    \/ ProbeT2
    \/ OneHotFitEnd
    \/ \E X \in LabelTransformCols : OneHotTransform(X)

SpecOneHot == Init /\ [][OneHotNext]_vars

----------------------------------------------------------------------------
(* countencoder and the CategoryEncoder factory                            *)

CountVals == {StrA, StrB, StrC}
\* the column of the class docstring (line 142) and its transform (line 143)
CountExampleFit == <<StrA, StrB, StrC, StrB, StrC, StrC>>
CountExampleTransform == <<StrA, StrC, StrB>>

CountFitCols == SeqsUpTo(CountVals, MaxLen) \cup {CountExampleFit}
CountTransformCols == SeqsUpTo({StrA, StrD}, MaxTLen) \cup {CountExampleTransform}

UnseenChoices == {1, 7}
SmoothingChoices == {0, 1, 3}

\* a variant constructor that stores the smoothing it is given
GivenSmoothing(arg) == arg

\* line 152: self.smoothing = 1, whatever the argument
StoredSmoothing(arg) == 1

\* countencoder.__init__ (lines 149-152)
NewCount(uv, lt, sm) ==
    /\ Fresh("countencoder")
    /\ unseen_values' = uv
    /\ log_transform' = lt
    /\ smoothing' = StoredSmoothing(sm)
    /\ smoothing_arg' = sm
    /\ random_noise' = <<0, 1>>
    /\ random_seed' = 0

CountInit(uv, lt, sm) ==
    /\ pc = "idle"
    /\ NewCount(uv, lt, sm)
    /\ method' = ""
    /\ op' = "init"
    /\ UNCHANGED evalVars

\* collections.Counter(X)
Counter(X) == [v \in Elems(X) |-> Cardinality({i \in DOMAIN X : X[i] = v})]

\* countencoder.fit (line 160)
CountFit(X) ==
    /\ kind = "countencoder"
    /\ dmap' = Counter(X)
    /\ fitted' = TRUE
    /\ op' = "fit"
    /\ lastX' = <<>>
    /\ ret' = <<>>
    /\ err' = "none"
    /\ UNCHANGED <<kind, leLocals, fitY, leState, ohState, ceParams, smoothing,
                   teParams, bias, base_p, method, evalVars>>

\* np.log of a positive number, kept symbolic
Ln(v) == <<"ln", v>>

\* line 168: the values before the log step
CountValues(X, d, sm, uv) ==
    [i \in DOMAIN X |-> IF X[i] \in DOMAIN d THEN d[X[i]] + sm ELSE uv]

\* lines 169-170
LogStep(vals, lt) == IF lt THEN [i \in DOMAIN vals |-> Ln(vals[i])] ELSE vals

\* a variant lookup that inserts a zero count for every key it misses, as
\* indexing a defaultdict would
DmapWithDefaults(X, d) ==
    [v \in DOMAIN d \cup Elems(X) |-> IF v \in DOMAIN d THEN d[v] ELSE 0]

\* transform only reads self.dmap: `i in self.dmap.keys()` guards the lookup
\* and a Counter lookup inserts nothing (line 168)
DmapAfterTransform(X, d) == d

\* countencoder.transform (lines 168-171)
CountTransform(X) ==
    /\ kind = "countencoder"
    /\ op' = "transform"
    /\ lastX' = X
    /\ IF fitted
       THEN /\ ret' = LogStep(CountValues(X, dmap, smoothing, unseen_values), log_transform)
            /\ err' = "none"
       ELSE ret' = <<>> /\ err' = "AttributeError"
    /\ dmap' = DmapAfterTransform(X, dmap)
    /\ UNCHANGED <<kind, fitted, leLocals, fitY, leState, ohState, ceParams,
                   smoothing, teParams, bias, base_p, method, evalVars>>

\* the four encoder classes of the module
EncoderNames == {"labelencoder", "onehotencoder", "countencoder", "targetencoder"}
\* the other classes the module's namespace binds (lines 7 and 9)
ImportedClasses == {"LabelEncoder", "Counter"}
\* a module it binds (line 6): calling one raises TypeError
ImportedModules == {"np"}
\* a name the namespace does not bind (the hash encoder is a TODO, line 243)
UnboundNames == {"hashencoder"}
MethodNames ==
    EncoderNames \cup ImportedClasses \cup ImportedModules \cup UnboundNames
        \cup {"CategoryEncoder", ""}

\* what eval(method)() does (line 240): the class of the object it returns,
\* or "" when it raises
EvalCallKind(m) ==
    IF m \in EncoderNames \cup ImportedClasses THEN m
    ELSE IF m = "CategoryEncoder" THEN "countencoder"
    ELSE ""

\* the exception eval(method)() raises, "none" when it returns
EvalCallError(m) ==
    IF m \in EncoderNames \cup ImportedClasses \cup {"CategoryEncoder"} THEN "none"
    ELSE IF m \in ImportedModules THEN "TypeError"
    ELSE IF m = "" THEN "SyntaxError"
    ELSE "NameError"

\* targetencoder.__init__'s defaults (line 198)
DefaultNoise == <<1, 20>>
DefaultTargetSmoothing == <<1, 10>>
DefaultSeed == 10

\* targetencoder.__init__ (lines 198-201)
NewTarget(rn, sm, seed) ==
    /\ Fresh("targetencoder")
    /\ unseen_values' = 0
    /\ log_transform' = FALSE
    /\ smoothing' = sm
    /\ smoothing_arg' = sm
    /\ random_noise' = rn
    /\ random_seed' = seed

\* CategoryEncoder(method) (lines 239-240)
CategoryEncoder(m) ==
    /\ pc = "idle"
    /\ method' = m
    /\ op' = "CategoryEncoder"
    /\ IF EvalCallError(m) # "none"
       THEN /\ err' = EvalCallError(m)
            /\ UNCHANGED <<kind, fitted, leLocals, fitY, leState, ohState, ceParams,
                           smoothing, dmap, teParams, bias, base_p, lastX, ret>>
       ELSE CASE EvalCallKind(m) = "countencoder" -> NewCount(1, TRUE, 1)
              [] EvalCallKind(m) = "targetencoder" ->
                    NewTarget(DefaultNoise, DefaultTargetSmoothing, DefaultSeed)
              [] OTHER -> Fresh(EvalCallKind(m)) /\ NoParams
    /\ UNCHANGED evalVars

CountNext ==
    \/ \E uv \in UnseenChoices, lt \in BOOLEAN, sm \in SmoothingChoices : CountInit(uv, lt, sm)
    \/ \E X \in CountFitCols : CountFit(X)
    \/ \E X \in CountTransformCols : CountTransform(X)

FactoryNext == \E m \in MethodNames : CategoryEncoder(m)

\* the count encoder, constructed directly or through the factory
SpecCount == Init /\ [][CountNext \/ FactoryNext]_vars

----------------------------------------------------------------------------
(* Exact rationals <<n, d>>, d > 0, in lowest terms.                       *)

Abs(n) == IF n < 0 THEN -n ELSE n

RECURSIVE GCD(_, _)
GCD(a, b) == IF b = 0 THEN a ELSE GCD(b, a % b)

Rat(n, d) ==
    LET g == GCD(Abs(n), Abs(d))
        sgn == IF d < 0 THEN -1 ELSE 1
    IN <<(sgn * n) \div g, Abs(d) \div g>>

RInt(n) == <<n, 1>>
RAdd(a, b) == Rat(a[1] * b[2] + b[1] * a[2], a[2] * b[2])
RSub(a, b) == Rat(a[1] * b[2] - b[1] * a[2], a[2] * b[2])
RMul(a, b) == Rat(a[1] * b[1], a[2] * b[2])
RDiv(a, b) == Rat(a[1] * b[2], a[2] * b[1])
RAbs(a) == <<Abs(a[1]), a[2]>>
RLt(a, b) == a[1] * b[2] < b[1] * a[2]

----------------------------------------------------------------------------
(* targetencoder                                                           *)

TargetVals == {0, 1}
NoiseChoices == {<<0, 1>>, DefaultNoise}
TargetSmoothingChoices == {DefaultTargetSmoothing, <<1, 1>>}

\* the training pairs: a column of categories and its targets, row by row
TrainingPairs(cats, n) ==
    {<<X, y>> \in SeqsUpTo(cats, n) \X SeqsUpTo(TargetVals, n) :
        Len(X) = Len(y) /\ Len(X) >= 1}

TargetFitPairs == TrainingPairs({StrA, StrB}, MaxTrain)
TargetFitCols == SeqsUpTo({StrA, StrB}, MaxTrain) \ {<<>>}
TargetTransformCols == SeqsUpTo({StrA, StrD}, MaxTLen)

TargetInit(rn, sm, seed) ==
    /\ pc = "idle"
    /\ NewTarget(rn, sm, seed)
    /\ method' = ""
    /\ op' = "init"
    /\ UNCHANGED evalVars

\* y.mean() (line 216)
Mean(y) == Rat(SeqSum(y), Len(y))

\* the rows of category key: X == key (line 218)
Rows(X, key) == {i \in DOMAIN X : X[i] = key}

RECURSIVE SumOver(_, _)
SumOver(y, I) ==
    IF I = {} THEN 0
    ELSE LET i == CHOOSE j \in I : TRUE IN y[i] + SumOver(y, I \ {i})

\* the first draws of np.random.normal(0, 1) after np.random.seed(10),
\* in thousandths (the docstring's output, line 194, is made of them)
StandardNormal(seed, i) == Rat(<<1332, 715, -1545, -8, 621>>[i], 1000)

\* lines 213-214: one draw per class, in the order of classes_
Bias(rn, seed, n) == [i \in 1..n |-> RMul(rn, StandardNormal(seed, i))]

\* the classical m-estimate, whose pseudo-count does not scale with len(l)
MEstimate(sum_l, len_l, sm, bp) ==
    RDiv(RAdd(RInt(sum_l), RMul(sm, bp)), RAdd(RInt(len_l), sm))

\* line 219: the smoothed mean of the targets l = y[X == key]
SmoothedMean(sum_l, len_l, sm, bp) ==
    RDiv(RAdd(RInt(sum_l), RMul(RMul(sm, RInt(len_l)), bp)),
         RAdd(RInt(len_l), RMul(sm, RInt(len_l))))

\* the 1-based position of key in the sorted classes
IndexOf(classes, key) == SearchSorted(classes, key) + 1

\* a variant fit that does not empty dmap (no line 215): the entries of an
\* earlier fit survive
TargetDmapKept(old, X, y, sm, b) ==
    LET classes == Unique(X)
        bp == Mean(y)
    IN [key \in DOMAIN old \cup Elems(X) |->
           IF key \in Elems(X)
           THEN RAdd(SmoothedMean(SumOver(y, Rows(X, key)), Cardinality(Rows(X, key)),
                                  sm, bp),
                     b[IndexOf(classes, key)])
           ELSE old[key]]

\* lines 215-221: dmap is emptied and filled with one p per class
TargetDmap(old, X, y, sm, b) ==
    LET classes == Unique(X)
        bp == Mean(y)
    IN [key \in Elems(X) |->
           RAdd(SmoothedMean(SumOver(y, Rows(X, key)), Cardinality(Rows(X, key)),
                             sm, bp),
                b[IndexOf(classes, key)])]

\* targetencoder.fit with a target array (lines 209-221)
TargetFit(X, y) ==
    /\ kind = "targetencoder"
    /\ classes_' = Unique(X)
    /\ bias' = Bias(random_noise, random_seed, Len(Unique(X)))
    /\ base_p' = Mean(y)
    /\ dmap' = TargetDmap(dmap, X, y, smoothing, bias')
    /\ fitX' = X
    /\ fitY' = y
    /\ fitted' = TRUE
    /\ op' = "fit"
    /\ lastX' = <<>>
    /\ ret' = <<>>
    /\ err' = "none"
    /\ UNCHANGED <<kind, pc, l, t1, t2, unknown, ohState, ceParams, smoothing,
                   teParams, method, evalVars>>

\* a variant fit that checks y only after it has stored classes_ and emptied
\* dmap
FitChecksLate(X) ==
    /\ classes_' = Unique(X)
    /\ dmap' = <<>>
    /\ UNCHANGED <<fitted, bias, base_p, fitX, fitY>>

\* lines 206-207: fit raises before it assigns anything
FitWithoutTarget(X) ==
    UNCHANGED <<fitted, classes_, bias, dmap, base_p, fitX, fitY>>

\* targetencoder.fit without a target array (y is None)
TargetFitNoY(X) ==
    /\ kind = "targetencoder"
    /\ op' = "fit"
    /\ err' = "Exception"
    /\ FitWithoutTarget(X)
    /\ UNCHANGED <<kind, pc, l, t1, t2, unknown, ohState, ceParams, smoothing,
                   teParams, method, lastX, ret, evalVars>>

\* line 224
TargetValues(X, d, bp) ==
    [i \in DOMAIN X |-> IF X[i] \in DOMAIN d THEN d[X[i]] ELSE bp]

\* targetencoder.transform (lines 224-225)
TargetTransform(X) ==
    /\ kind = "targetencoder"
    /\ op' = "transform"
    /\ lastX' = X
    /\ IF fitted
       THEN ret' = TargetValues(X, dmap, base_p) /\ err' = "none"
       ELSE ret' = <<>> /\ err' = "AttributeError"
    /\ UNCHANGED <<kind, fitted, leLocals, fitY, leState, ohState, ceParams,
                   smoothing, dmap, teParams, bias, base_p, method, evalVars>>

TargetNext ==
    \/ \E rn \in NoiseChoices, sm \in TargetSmoothingChoices : TargetInit(rn, sm, DefaultSeed)
    \/ \E p \in TargetFitPairs : TargetFit(p[1], p[2])
    \/ \E X \in TargetFitCols : TargetFitNoY(X)
    \/ \E X \in TargetTransformCols : TargetTransform(X)

SpecTarget == Init /\ [][TargetNext]_vars

\* the four encoders in one program
Next ==
    \/ LabelNext
    \/ OneHotNext
    \/ CountNext
    \/ TargetNext

Spec == Init /\ [][Next]_vars

----------------------------------------------------------------------------
(* The smoothing of targetencoder.fit on its own: an encoder without noise *)
(* is constructed and fitted once on a training set of three categories.   *)

\* most rows of a training set of the smoothing runs
MaxRows == 4

SmoothFitPairs == TrainingPairs({StrA, StrB, StrC}, MaxRows)

SmoothNext ==
    \/ \E sm \in TargetSmoothingChoices : TargetInit(<<0, 1>>, sm, DefaultSeed)
    \/ \E p \in SmoothFitPairs : ~fitted /\ TargetFit(p[1], p[2])

SpecSmooth == Init /\ [][SmoothNext]_vars

----------------------------------------------------------------------------
(* xgb_model_evaluation.  A data set is its numbers of positive and of     *)
(* negative rows; the fitted boosters and the AUC values are not modelled. *)
(* test_size is in tenths.  xgb.train evaluates 'auc' (line 39) on every   *)
(* set of its watchlist and roc_auc_score scores its y_true: both raise on *)
(* a set that does not hold the two classes.                               *)

\* most rows of one class in the data handed in
MaxClass == 3
\* largest n_folds
MaxFolds == 3

TestSizes == {0, 2, 5}

Ceil(a, b) == (a + b - 1) \div b

\* train_test_split (lines 83-84): the number of test rows
SplitTestRows(n, ts) == Ceil(ts * n, 10)

BothClasses(d) == d[1] >= 1 /\ d[2] >= 1

\* StratifiedKFold(n_splits=k).split raises ValueError (lines 96-97)
KFoldRaises(k, train) ==
    \/ k < 2
    \/ k > train[1] + train[2]
    \/ (k > train[1] /\ k > train[2])

\* rows of a class of c rows in the validation part of fold i of k
FoldRows(c, k, i) == c \div k + (IF i <= c % k THEN 1 ELSE 0)

\* a variant loop that makes the fold's record unconditionally
AlwaysRecords(ts) == TRUE

\* line 109: the fold's record is made only under this condition
RecordsFold(ts) == ts > 0

RECURSIVE CvLoop(_, _, _, _, _, _)
\* the loop of lines 97-115 from fold i on: <<"ok", dic_cv>> or <<"raised">>
CvLoop(i, k, train, test, ts, acc) ==
    IF i > k THEN <<"ok", acc>>
    ELSE LET val == <<FoldRows(train[1], k, i), FoldRows(train[2], k, i)>>
             tra == <<train[1] - val[1], train[2] - val[2]>>
         IN IF ~BothClasses(tra) \/ ~BothClasses(val) THEN <<"raised">>
            ELSE IF RecordsFold(ts)
            THEN IF BothClasses(test)
                 THEN CvLoop(i + 1, k, train, test, ts,
                             Append(acc, [fold |-> i, tra |-> tra, val |-> val]))
                 ELSE <<"raised">>
            ELSE CvLoop(i + 1, k, train, test, ts, acc)

Raised == [status |-> "raised", dic_cv |-> <<>>, bst |-> FALSE, df_test |-> 0, df_train |-> 0]

\* lines 91-129 once train and test are settled
Evaluate(train, test, k, ts) ==
    LET cv == IF k # 0
              THEN IF KFoldRaises(k, train) THEN <<"raised">>
                   ELSE CvLoop(1, k, train, test, ts, <<>>)
              ELSE <<"ok", <<>>>>
    IN IF cv[1] = "raised" \/ ~BothClasses(train) \/ ~BothClasses(test)
       THEN Raised
       ELSE [status |-> "returned", dic_cv |-> cv[2], bst |-> TRUE,
             df_test |-> test[1] + test[2], df_train |-> train[1] + train[2]]

\* xgb_model_evaluation(df, target, test, test_y, ...) with a test set
EvalSupplied(pos, neg, tp, tn, k, ts) ==
    /\ evalCall' = [pos |-> pos, neg |-> neg, supplied |-> TRUE, n_folds |-> k,
                    test_size |-> ts]
    /\ evalRet' = Evaluate(<<pos, neg>>, <<tp, tn>>, k, ts)
    /\ UNCHANGED <<kind, fitted, leLocals, fitY, leState, ohState, ceParams, smoothing,
                   dmap, teParams, bias, base_p, method, op, lastX, ret, err>>

\* xgb_model_evaluation(df, target, ...) without one: lines 83-84 split it
\* off, tp positive and tn negative rows going to the test set
EvalSplit(pos, neg, tp, tn, k, ts) ==
    /\ tp + tn = SplitTestRows(pos + neg, ts)
    /\ evalCall' = [pos |-> pos, neg |-> neg, supplied |-> FALSE, n_folds |-> k,
                    test_size |-> ts]
    /\ evalRet' = Evaluate(<<pos - tp, neg - tn>>, <<tp, tn>>, k, ts)
    /\ UNCHANGED <<kind, fitted, leLocals, fitY, leState, ohState, ceParams, smoothing,
                   dmap, teParams, bias, base_p, method, op, lastX, ret, err>>

EvalNext ==
    \/ \E pos \in 1..MaxClass, neg \in 1..MaxClass, tp \in 0..MaxClass, tn \in 0..MaxClass,
          k \in 0..MaxFolds, ts \in TestSizes :
            EvalSupplied(pos, neg, tp, tn, k, ts)
    \/ \E pos \in 1..MaxClass, neg \in 1..MaxClass, k \in 0..MaxFolds, ts \in TestSizes :
            \E tp \in 0..pos, tn \in 0..neg : EvalSplit(pos, neg, tp, tn, k, ts)

SpecEval == Init /\ [][EvalNext]_vars

----------------------------------------------------------------------------
(* Properties of labelencoder.                                             *)

\* the values the fitted label encoder saw at fit time
FitVocabulary == Elems(classes_) \ {unknown}

LabelTransformed == kind = "labelencoder" /\ fitted /\ pc = "idle" /\ op = "transform"

\* C1: after fit, labelencoder.transform never fails, every value absent
\* from the fit-time vocabulary gets the code 0, and every fit-time value
\* gets a code different from 0.
C1_UnknownCodeIsZero ==
    LabelTransformed =>
        /\ err = "none"
        /\ Len(ret) = Len(lastX)
        /\ \A i \in DOMAIN lastX :
              IF lastX[i] \in FitVocabulary THEN ret[i] # 0 ELSE ret[i] = 0

\* C9: the sentinel probing of labelencoder.fit always terminates, and the
\* sentinel that fit stores is absent from the observed set l.
C9_ProbingTerminates ==
    /\ (pc = "probe") ~> (pc = "idle")
    /\ [][(pc = "probe" /\ pc' = "idle") => ~In(unknown', l)]_vars

----------------------------------------------------------------------------
(* Properties of onehotencoder.                                            *)

OneHotTransformed == kind = "onehotencoder" /\ fitted /\ pc = "idle" /\ op = "transform"

\* the number n of distinct categories of the fitted column
NCategories == Cardinality(FitVocabulary)

\* the sentinel's code is not below n_values_: the sentinel sorts after
\* every fit-time category
SentinelLast == SearchSorted(classes_, unknown) >= n_values_

HasUnseen(X) == \E i \in DOMAIN X : X[i] \notin FitVocabulary

----------------------------------------------------------------------------
(* Properties of countencoder and of CategoryEncoder.                      *)

CountTransformed == kind = "countencoder" /\ fitted /\ op = "transform"

C6_ClosedSetOfNames ==
    op = "CategoryEncoder" =>
        IF method \in EncoderNames
        THEN err = "none" /\ kind = method
        ELSE err = "NameError"

----------------------------------------------------------------------------
(* Properties of targetencoder.                                            *)

TargetTransformed == kind = "targetencoder" /\ fitted /\ op = "transform"

\* C4: transform maps each category of the most recent fit to the p that fit
\* stored for it, and every other category to base_p, the un-noised mean of
\* that fit's whole target array; it never fails on an unseen category.
C4_UnseenGetsBaseP ==
    TargetTransformed =>
        /\ err = "none"
        /\ Len(ret) = Len(lastX)
        /\ DOMAIN dmap = Elems(fitX)
        /\ \A i \in DOMAIN lastX :
              IF lastX[i] \in Elems(fitX)
              THEN ret[i] = dmap[lastX[i]]
              ELSE ret[i] = Mean(fitY)

\* a noised encoder transformed a category of its fit and an unseen one
C4_Witness ==
    /\ TargetTransformed
    /\ random_noise # <<0, 1>>
    /\ \E i \in DOMAIN lastX : lastX[i] \in Elems(fitX) /\ ret[i] # Mean(fitY)
    /\ \E i \in DOMAIN lastX : lastX[i] \notin Elems(fitX) /\ ret[i] = Mean(fitY)

\* C5: fit without a target array raises and changes nothing: classes, noise
\* draws, encoding map and base_p are kept, and a transform after the failed
\* fit returns what it returned before it.
C5_FailedFitChangesNothing ==
    /\ [][(kind = "targetencoder" /\ op' = "fit" /\ err' = "Exception") =>
             UNCHANGED <<kind, fitted, classes_, bias, dmap, base_p, smoothing,
                         random_noise, random_seed>>]_vars
    /\ [][(kind = "targetencoder" /\ op = "fit" /\ err = "Exception"
             /\ op' = "transform" /\ lastX' = lastX) => ret' = ret]_vars

\* a fitted encoder that has transformed a column and then refused a fit
C5_Witness ==
    /\ kind = "targetencoder"
    /\ fitted
    /\ op = "fit"
    /\ err = "Exception"
    /\ dmap # <<>>
    /\ ret # <<>>

----------------------------------------------------------------------------
(* Properties of the smoothing.                                            *)

SmoothFitted ==
    kind = "targetencoder" /\ fitted /\ op = "fit" /\ err = "none"
        /\ random_noise = <<0, 1>>

LenOf(key) == Cardinality(Rows(fitX, key))
SumOf(key) == SumOver(fitY, Rows(fitX, key))
\* the raw mean of the targets of category key
CatMean(key) == Rat(SumOf(key), LenOf(key))
\* the distance between the stored p and the raw category mean
Dist(key) == RAbs(RSub(dmap[key], CatMean(key)))

----------------------------------------------------------------------------
(* Properties of xgb_model_evaluation.                                     *)

Returned == evalRet # <<>> /\ evalRet.status = "returned"

\* C8 as stated: the returned list holds exactly n_folds records when
\* n_folds > 0, whether the test set was split off or supplied and for every
\* test_size, and none when n_folds = 0, when the model and both tables are
\* still returned.
C8_OneRecordPerFold ==
    Returned =>
        /\ evalCall.n_folds > 0 => Len(evalRet.dic_cv) = evalCall.n_folds
        /\ evalCall.n_folds = 0 =>
              Len(evalRet.dic_cv) = 0 /\ evalRet.bst /\ evalRet.df_train >= 1

\* C8 as amended: the returned list holds exactly n_folds records when
\* n_folds > 0 and test_size > 0, and none when n_folds = 0 or test_size <= 0
\* (also with a supplied test set); the model and both tables are returned
\* in every case.
C8_RecordsNeedTestSize ==
    Returned =>
        /\ Len(evalRet.dic_cv) =
              IF evalCall.n_folds > 0 /\ evalCall.test_size > 0
              THEN evalCall.n_folds ELSE 0
        /\ \A i \in DOMAIN evalRet.dic_cv : evalRet.dic_cv[i].fold = i
        /\ evalRet.bst
        /\ evalRet.df_train >= 1

\* a run of at least two folds that returned one record per fold
C8_Witness ==
    /\ Returned
    /\ evalCall.n_folds >= 2
    /\ evalCall.supplied
    /\ Len(evalRet.dic_cv) = evalCall.n_folds

----------------------------------------------------------------------------
(* Properties of transform, for the four encoders.                         *)

\* everything fit or the constructor stores on the encoder
fittedState ==
    <<kind, fitted, classes_, unknown, n_values_, active_features_, dmap, smoothing,
      unseen_values, log_transform, random_noise, random_seed, bias, base_p>>

====
